---- MODULE Spec2Model ----
(***************************************************************************)
(* Weather-App-Pro, src/script.js: the page's state object, its DOM        *)
(* elements, the persisted store, the in-flight requests and the debounce  *)
(* timer, as one state machine with one action per handler.                *)
(*                                                                         *)
(* Strings are TLA+ strings.  A value that may be null is a sequence of    *)
(* length 0 (null) or 1.  Decimal numbers of the API are in tenths.        *)
(***************************************************************************)
EXTENDS Integers, Sequences, FiniteSets, TLC

VARIABLES
    pc,            \* "loading" before DOMContentLoaded, "ready" after initApp
    state,         \* the state object: currentUnit, lastLocation, weatherData
    localStorage,  \* the persisted store, a function on the keys it holds
    elements,      \* what the DOM elements show
    weatherReqs,   \* fetchWeather calls suspended at their await
    suggestReqs,   \* handleInput calls suspended at their await
    timers,        \* the browser's pending setTimeout entries
    timeout,       \* the variable `timeout` of the debounce closure (0: undefined)
    nextReq,       \* number of the next weather request
    nextEvent,     \* number of the next input event
    quiet,         \* ms since the last input event, capped at Delay
    burst,         \* observer: the current burst of input events
    lastSuccess,   \* observer: the last fetch that got a snapshot (Null: none)
    lastRendered,  \* observer: the query of the last fetch that returned
                   \* without an error (Null: none)
    last           \* observer: the handler step taken last

vars == <<pc, state, localStorage, elements, weatherReqs, suggestReqs, timers,
          timeout, nextReq, nextEvent, quiet, burst, lastSuccess, lastRendered,
          last>>

-----------------------------------------------------------------------------
(* Bounds of the model *)

MaxEvents == 3     \* weather requests plus input events in one page session
TickMs == 150      \* granularity of the clock

(* Program constants *)

Delay == 300
MaxShown == 5

Units == {"c", "f"}
Null == <<>>
Some(v) == <<v>>

-----------------------------------------------------------------------------
(* Values of the environment *)

\* what the user can have typed into the search field
Texts == {" ", " a", "aa "}

\* payloads of the current-conditions endpoint: a success response whose
\* body parses carries every field updateUI reads
SnapParis ==
    [location |-> [name |-> "Paris", country |-> "France",
                   localtime |-> "2024-03-09 14:05"],
     current  |-> [temp_c |-> 125, temp_f |-> 545,
                   condition |-> [text |-> "Sunny",
                                  icon |-> "//cdn.weatherapi.com/day/113.png"],
                   wind_kph |-> 133, wind_dir |-> "NW", humidity |-> 40,
                   pressure_mb |-> 10120, vis_km |-> 100, is_day |-> 1]]

SnapOslo ==
    [location |-> [name |-> "Oslo", country |-> "Norway",
                   localtime |-> "2024-03-09 23:40"],
     current  |-> [temp_c |-> -25, temp_f |-> 275,
                   condition |-> [text |-> "Clear",
                                  icon |-> "//cdn.weatherapi.com/night/113.png"],
                   wind_kph |-> 61, wind_dir |-> "S", humidity |-> 81,
                   pressure_mb |-> 9985, vis_km |-> 25, is_day |-> 0]]

Snapshots == {SnapParis, SnapOslo}

\* bodies of a non-success response: JSON with or without error.message
ErrorBodies ==
    {[error |-> Some([message |-> Some("Location not found")])],
     [error |-> Some([message |-> Some("")])],
     [error |-> Null]}

FetchFailedMsg == "Failed to fetch"
SyntaxMsg == "Unexpected token < in JSON at position 0"
QuotaMsg == "The quota has been exceeded."

\* what the transport can answer to a current-conditions request;
\* body Null is a body that response.json() cannot parse
WeatherResponses ==
    {[kind |-> "reject", ok |-> FALSE, body |-> Null]}
    \cup {[kind |-> "response", ok |-> TRUE, body |-> Some(s)] : s \in Snapshots}
    \cup {[kind |-> "response", ok |-> FALSE, body |-> Some(b)] : b \in ErrorBodies}
    \cup {[kind |-> "response", ok |-> o, body |-> Null] : o \in BOOLEAN}

NoResponse == [kind |-> "none", ok |-> FALSE, body |-> Null]

\* results of the search endpoint, in the API's order
Places ==
    <<[name |-> "Tokyo", country |-> "Japan"],
      [name |-> "Paris", country |-> "France"],
      [name |-> "Oslo", country |-> "Norway"],
      [name |-> "Lima", country |-> "Peru"],
      [name |-> "Rome", country |-> "Italy"],
      [name |-> "Bern", country |-> "Switzerland"]>>

SearchResults == {<<>>, SubSeq(Places, 1, 2), Places}

\* what the transport can answer to a search request
SuggestResponses ==
    {[kind |-> "reject", ok |-> FALSE, body |-> Null]}
    \cup {[kind |-> "response", ok |-> TRUE, body |-> Some(l)] : l \in SearchResults}
    \cup {[kind |-> "response", ok |-> o, body |-> Null] : o \in BOOLEAN}

-----------------------------------------------------------------------------
(* Pure helpers *)

\* String.prototype.trim
RECURSIVE TrimStart(_)
TrimStart(s) == IF Len(s) > 0 /\ SubSeq(s, 1, 1) = " "
                THEN TrimStart(SubSeq(s, 2, Len(s))) ELSE s

RECURSIVE TrimEnd(_)
TrimEnd(s) == IF Len(s) > 0 /\ SubSeq(s, Len(s), Len(s)) = " "
              THEN TrimEnd(SubSeq(s, 1, Len(s) - 1)) ELSE s

Trim(s) == TrimEnd(TrimStart(s))

\* a || b on strings that may be null
Truthy(v) == v # Null /\ v # Some("")
Or(v, w) == IF Truthy(v) THEN v[1] ELSE w

\* Math.round on tenths: to the nearest integer, halves towards +infinity
Round(t) == (t + 5) \div 10

\* Number to string, the number given in tenths
NumText(t) == IF t % 10 = 0 THEN ToString(t \div 10)
              ELSE ToString(t \div 10) \o "." \o ToString(t % 10)

\* localStorage.getItem
GetItem(store, key) == IF key \in DOMAIN store THEN Some(store[key]) ELSE Null

\* localStorage.setItem
SetItem(store, key, value) ==
    [k \in DOMAIN store \cup {key} |-> IF k = key THEN value ELSE store[k]]


-----------------------------------------------------------------------------
(* View renderer *)

\* updateDateTime: the locale's formatting of the time and of the date part
UpdateDateTime(el, localtime) ==
    [el EXCEPT !.time = SubSeq(localtime, 12, 16),
               !.date = SubSeq(localtime, 1, 10)]

UpdateTemperature(el, temp, unit) ==
    [el EXCEPT !.temperature = ToString(Round(temp)),
               !.unitActive = {b \in Units : b = unit}]

\* current[`temp_${unit}`]
TempOf(data, unit) == IF unit = "c" THEN data.current.temp_c
                      ELSE data.current.temp_f

\* faulty variant: the Celsius reading whatever the unit
UpdateUICelsius(el, data, unit) ==
    LET loc == data.location
        cur == data.current
        e1  == [el EXCEPT !.location = loc.name \o ", " \o loc.country]
        e2  == UpdateDateTime(e1, loc.localtime)
        e3  == UpdateTemperature(e2, cur.temp_c, unit)
    IN  [e3 EXCEPT !.iconSrc = "https:" \o cur.condition.icon,
                   !.iconAlt = cur.condition.text,
                   !.conditionText = cur.condition.text,
                   !.windSpeed = NumText(cur.wind_kph) \o " km/h",
                   !.windDir = cur.wind_dir,
                   !.humidity = ToString(cur.humidity) \o "%",
                   !.pressure = NumText(cur.pressure_mb) \o " hPa",
                   !.visibility = NumText(cur.vis_km) \o " km",
                   !.nightMode = (cur.is_day = 0)]

UpdateUI(el, data, unit) ==
    LET loc == data.location
        cur == data.current
        e1  == [el EXCEPT !.location = loc.name \o ", " \o loc.country]
        e2  == UpdateDateTime(e1, loc.localtime)
        e3  == UpdateTemperature(e2, TempOf(data, unit), unit)
    IN  [e3 EXCEPT !.iconSrc = "https:" \o cur.condition.icon,
                   !.iconAlt = cur.condition.text,
                   !.conditionText = cur.condition.text,
                   !.windSpeed = NumText(cur.wind_kph) \o " km/h",
                   !.windDir = cur.wind_dir,
                   !.humidity = ToString(cur.humidity) \o "%",
                   !.pressure = NumText(cur.pressure_mb) \o " hPa",
                   !.visibility = NumText(cur.vis_km) \o " km",
                   !.nightMode = (cur.is_day = 0)]

ShowLoadingState(el) ==
    [el EXCEPT !.temperature = "...", !.conditionText = "Loading..."]

ShowErrorState(el, message) ==
    [el EXCEPT !.temperature = "--",
               !.conditionText = Or(message, "Data unavailable")]

HideSuggestions(el) == [el EXCEPT !.suggestionsShow = FALSE]

\* faulty variant: the field is emptied, the suggestions are left as they are
ClearSearchValueOnly(el) == [el EXCEPT !.searchInput = ""]

ClearSearch(el) == HideSuggestions([el EXCEPT !.searchInput = ""])

\* suggestions.slice(0, 5).map(...)
RECURSIVE ItemTexts(_)
ItemTexts(items) ==
    IF items = <<>> THEN <<>>
    ELSE <<Head(items).name \o ", " \o Head(items).country>>
         \o ItemTexts(Tail(items))

\* faulty variant: the end index is taken as included
SliceInclusive(items, n) ==
    SubSeq(items, 1, IF Len(items) < n + 1 THEN Len(items) ELSE n + 1)

Slice(items, n) == SubSeq(items, 1, IF Len(items) < n THEN Len(items) ELSE n)

\* showSuggestions: the texts of the suggestion-item elements, then shown
ShowSuggestions(el, suggestions) ==
    [el EXCEPT !.suggestionsHtml =
                   IF Len(suggestions) = 0 THEN <<"No results found">>
                   ELSE ItemTexts(Slice(suggestions, MaxShown)),
               !.suggestionsShow = TRUE]

-----------------------------------------------------------------------------
(* State management *)

\* faulty variant: the store is written, state.lastLocation is not
StoreLocationStoreOnly(st, store, location, writeOk) ==
    [state  |-> st,
     store  |-> IF writeOk THEN SetItem(store, "lastLocation", location)
                ELSE store,
     thrown |-> IF writeOk THEN Null ELSE Some(QuotaMsg)]

\* storeLocation; writeOk is whether localStorage.setItem returns or throws
StoreLocation(st, store, location, writeOk) ==
    [state  |-> [st EXCEPT !.lastLocation = location],
     store  |-> IF writeOk THEN SetItem(store, "lastLocation", location)
                ELSE store,
     thrown |-> IF writeOk THEN Null ELSE Some(QuotaMsg)]

-----------------------------------------------------------------------------
(* fetchWeather *)

\* faulty variant: errorData.message, a field the payload does not have
ErrorMessageTopLevel(errorData) == Null

\* errorData.error?.message
ErrorMessage(errorData) ==
    IF errorData.error = Null THEN Null ELSE errorData.error[1].message

\* the error thrown in the try block before state.weatherData is assigned:
\* by fetch, by response.json() or by the throw of line 57; Null when none
ThrownBeforeAssign(resp) ==
    IF resp.kind = "reject" THEN Some(FetchFailedMsg)
    ELSE IF resp.body = Null THEN Some(SyntaxMsg)
    ELSE IF ~resp.ok
         THEN Some(Or(ErrorMessage(resp.body[1]), "Weather data unavailable"))
    ELSE Null

\* faulty variant: no catch; an error leaves fetchWeather and the page as it is
FetchWeatherResumeNoCatch(st, store, el, location, resp, writeOk) ==
    LET thrown == ThrownBeforeAssign(resp) IN
    IF thrown # Null
    THEN [state |-> st, store |-> store, elements |-> el,
          outcome |-> "propagated"]
    ELSE LET st1    == [st EXCEPT !.weatherData = resp.body]
             el1    == UpdateUI(el, st1.weatherData[1], st1.currentUnit)
             stored == StoreLocation(st1, store, location, writeOk)
         IN  [state |-> stored.state, store |-> stored.store,
              elements |-> el1,
              outcome |-> IF stored.thrown # Null THEN "propagated"
                          ELSE "rendered"]

\* faulty variant: the location is stored before the snapshot is rendered, so
\* a failing write leaves the new snapshot in the state and the old one on
\* the page
FetchWeatherResumeStoreFirst(st, store, el, location, resp, writeOk) ==
    LET thrown == ThrownBeforeAssign(resp) IN
    IF thrown # Null
    THEN [state |-> st, store |-> store,
          elements |-> ShowErrorState(el, thrown), outcome |-> "caught"]
    ELSE LET st1    == [st EXCEPT !.weatherData = resp.body]
             stored == StoreLocation(st1, store, location, writeOk)
         IN  IF stored.thrown # Null
             THEN [state |-> stored.state, store |-> stored.store,
                   elements |-> ShowErrorState(el, stored.thrown),
                   outcome |-> "caught"]
             ELSE [state |-> stored.state, store |-> stored.store,
                   elements |-> UpdateUI(el, st1.weatherData[1],
                                         st1.currentUnit),
                   outcome |-> "rendered"]

\* fetchWeather from the resumption of its await to its return
FetchWeatherResume(st, store, el, location, resp, writeOk) ==
    LET thrown == ThrownBeforeAssign(resp) IN
    IF thrown # Null
    THEN [state |-> st, store |-> store,
          elements |-> ShowErrorState(el, thrown), outcome |-> "caught"]
    ELSE LET st1    == [st EXCEPT !.weatherData = resp.body]
             el1    == UpdateUI(el, st1.weatherData[1], st1.currentUnit)
             stored == StoreLocation(st1, store, location, writeOk)
         IN  IF stored.thrown # Null
             THEN [state |-> stored.state, store |-> stored.store,
                   elements |-> ShowErrorState(el1, stored.thrown),
                   outcome |-> "caught"]
             ELSE [state |-> stored.state, store |-> stored.store,
                   elements |-> el1, outcome |-> "rendered"]

\* the weather requests and input events so far
Issued == (nextReq - 1) + (nextEvent - 1)

\* fetchWeather up to its await: the loading state and the request
StartFetch(location, caller) ==
    /\ Issued < MaxEvents
    /\ weatherReqs' = weatherReqs \cup
           {[id |-> nextReq, location |-> location, caller |-> caller]}
    /\ nextReq' = nextReq + 1

Step(op, id, arg, resp, outcome) ==
    [op |-> op, id |-> id, arg |-> arg, resp |-> resp, outcome |-> outcome]

NoBurst == [first |-> 0, last |-> 0, runs |-> 0, reqs |-> 0, args |-> 0, len |-> 0]

-----------------------------------------------------------------------------
(* Initial state: the script has run, DOMContentLoaded has not fired *)

StoredAtStart == {"Paris"}

InitialElements(active) ==
    [temperature |-> "", location |-> "", time |-> "", date |-> "",
     iconSrc |-> "", iconAlt |-> "", conditionText |-> "",
     windSpeed |-> "", windDir |-> "", humidity |-> "", pressure |-> "",
     visibility |-> "", nightMode |-> FALSE, unitActive |-> active,
     searchInput |-> "", suggestionsHtml |-> <<>>, suggestionsShow |-> FALSE]

\* faulty variant: the state object never reads the persisted location
FreshStateDefault(store) ==
    [currentUnit |-> "c", lastLocation |-> "London", weatherData |-> Null]

\* the state object as the script creates it
FreshState(store) ==
    [currentUnit |-> "c",
     lastLocation |-> Or(GetItem(store, "lastLocation"), "London"),
     weatherData |-> Null]

Init ==
    /\ pc = "loading"
    /\ localStorage \in {<<>>} \cup
           {[k \in {"lastLocation"} |-> v] : v \in StoredAtStart}
    /\ state = FreshState(localStorage)
    /\ elements = InitialElements({})
    /\ weatherReqs = {}
    /\ suggestReqs = {}
    /\ timers = {}
    /\ timeout = 0
    /\ nextReq = 1
    /\ nextEvent = 1
    /\ quiet = Delay
    /\ burst = NoBurst
    /\ lastSuccess = Null
    /\ lastRendered = Null
    /\ last = Step("load", 0, "", NoResponse, "")

-----------------------------------------------------------------------------
(* Handlers *)

\* DOMContentLoaded: initApp up to the await inside fetchWeather
InitApp ==
    /\ pc = "loading"
    /\ pc' = "ready"
    /\ StartFetch(state.lastLocation, "initApp")
    /\ elements' = ShowLoadingState(elements)
    /\ last' = Step("initApp", nextReq, state.lastLocation, NoResponse, "")
    /\ UNCHANGED <<state, localStorage, suggestReqs, timers, timeout,
                   nextEvent, quiet, burst, lastSuccess,
                   lastRendered>>

\* faulty variant: a response is dropped when a newer request has been issued
WeatherResponseDropStale(r, resp, writeOk) ==
    LET res == FetchWeatherResume(state, localStorage, elements,
                                  r.location, resp, writeOk)
        stale == r.id < nextReq - 1
    IN  /\ weatherReqs' = weatherReqs \ {r}
        /\ state' = IF stale THEN state ELSE res.state
        /\ localStorage' = IF stale THEN localStorage ELSE res.store
        /\ elements' = IF stale THEN elements
                       ELSE IF r.caller = "handleSearch"
                       THEN ClearSearch(res.elements) ELSE res.elements
        /\ last' = Step("fetchDone", r.id, r.location, resp, res.outcome)
        /\ lastSuccess' = IF ThrownBeforeAssign(resp) = Null
                          THEN Some([location |-> r.location, wrote |-> writeOk])
                          ELSE lastSuccess
        /\ lastRendered' = IF res.outcome = "rendered"
                           THEN Some(r.location) ELSE lastRendered
        /\ UNCHANGED <<pc, suggestReqs, timers, timeout, nextReq, nextEvent,
                       quiet, burst>>

\* the response of weather request r arrives: fetchWeather runs to its end,
\* and so does the caller that awaited it.  fetchWeather changes nothing
\* between its awaits of fetch and of response.json(), so both are one step
WeatherResponse(r, resp, writeOk) ==
    LET res == FetchWeatherResume(state, localStorage, elements,
                                  r.location, resp, writeOk)
    IN  /\ weatherReqs' = weatherReqs \ {r}
        /\ state' = res.state
        /\ localStorage' = res.store
        /\ elements' = IF r.caller = "handleSearch"
                       THEN ClearSearch(res.elements) ELSE res.elements
        /\ last' = Step("fetchDone", r.id, r.location, resp, res.outcome)
        /\ lastSuccess' = IF ThrownBeforeAssign(resp) = Null
                          THEN Some([location |-> r.location, wrote |-> writeOk])
                          ELSE lastSuccess
        /\ lastRendered' = IF res.outcome = "rendered"
                           THEN Some(r.location) ELSE lastRendered
        /\ UNCHANGED <<pc, suggestReqs, timers, timeout, nextReq, nextEvent,
                       quiet, burst>>

\* faulty variant: the unit switch renders the whole snapshot again
SwitchUnitRerender(st, el, unit) ==
    IF st.currentUnit = unit \/ st.weatherData = Null
    THEN [state |-> st, elements |-> el]
    ELSE [state    |-> [st EXCEPT !.currentUnit = unit],
          elements |-> UpdateUI(el, st.weatherData[1], unit)]

\* switchUnit
SwitchUnit(st, el, unit) ==
    IF st.currentUnit = unit \/ st.weatherData = Null
    THEN [state |-> st, elements |-> el]
    ELSE [state    |-> [st EXCEPT !.currentUnit = unit],
          elements |-> UpdateTemperature(el, TempOf(st.weatherData[1], unit),
                                         unit)]

\* click on a unit button
UnitClick(unit) ==
    /\ pc = "ready"
    /\ LET sw == SwitchUnit(state, elements, unit) IN
       /\ state' = sw.state
       /\ elements' = sw.elements
    /\ last' = Step("switchUnit", 0, unit, NoResponse, "")
    /\ UNCHANGED <<pc, localStorage, weatherReqs, suggestReqs, timers, timeout,
                   nextReq, nextEvent, quiet, burst, lastSuccess,
                   lastRendered>>

\* submit of the search form
HandleSearch ==
    /\ pc = "ready"
    /\ LET location == Trim(elements.searchInput) IN
       IF location # ""
       THEN /\ StartFetch(location, "handleSearch")
            /\ elements' = ShowLoadingState(elements)
            /\ last' = Step("handleSearch", nextReq, location, NoResponse, "")
       ELSE /\ UNCHANGED <<weatherReqs, nextReq, elements>>
            /\ last' = Step("handleSearch", 0, location, NoResponse, "")
    /\ UNCHANGED <<pc, state, localStorage, suggestReqs, timers, timeout,
                   nextEvent, quiet, burst, lastSuccess,
                   lastRendered>>


-----------------------------------------------------------------------------
(* Debounced search input *)

Min(a, b) == IF a < b THEN a ELSE b

\* faulty variant: no clearTimeout
DebouncedNoClear(pending, slot, args, id) ==
    [timers  |-> pending \cup {[id |-> id, args |-> args, elapsed |-> 0]},
     timeout |-> id]

\* faulty variant: the id setTimeout returns is not kept, so clearTimeout
\* never finds the pending execution
DebouncedIdLost(pending, slot, args, id) ==
    [timers  |-> {t \in pending : t.id # slot}
                 \cup {[id |-> id, args |-> args, elapsed |-> 0]},
     timeout |-> slot]

\* the function debounce returns, called with args: clearTimeout(timeout),
\* then timeout = setTimeout(...); id is the id setTimeout returns
Debounced(pending, slot, args, id) ==
    [timers  |-> {t \in pending : t.id # slot}
                 \cup {[id |-> id, args |-> args, elapsed |-> 0]},
     timeout |-> id]

\* an input event on the search field: the user has made its value `text`.
\* A timer that is due runs before the next input event is handled
InputEvent(text) ==
    /\ pc = "ready"
    /\ Issued < MaxEvents
    /\ \A t \in timers : t.elapsed < Delay
    /\ elements' = [elements EXCEPT !.searchInput = text]
    /\ LET d == Debounced(timers, timeout, nextEvent, nextEvent) IN
       /\ timers' = d.timers
       /\ timeout' = d.timeout
    /\ nextEvent' = nextEvent + 1
    /\ quiet' = 0
    /\ burst' = IF quiet >= Delay
                THEN [NoBurst EXCEPT !.first = nextEvent, !.last = nextEvent]
                ELSE [burst EXCEPT !.last = nextEvent]
    /\ last' = Step("input", nextEvent, text, NoResponse, "")
    /\ UNCHANGED <<pc, state, localStorage, weatherReqs, suggestReqs, nextReq,
                   lastSuccess,
                   lastRendered>>

\* TickMs pass; a timer that is due runs before more time passes
Tick ==
    /\ timers # {}
    /\ \A t \in timers : t.elapsed < Delay
    /\ timers' = {[t EXCEPT !.elapsed = Min(t.elapsed + TickMs, Delay)] :
                     t \in timers}
    /\ quiet' = Min(quiet + TickMs, Delay)
    /\ last' = Step("tick", 0, "", NoResponse, "")
    /\ UNCHANGED <<pc, state, localStorage, elements, weatherReqs, suggestReqs,
                   timeout, nextReq, nextEvent, burst, lastSuccess,
                   lastRendered>>

\* faulty variant: a short query returns without hiding the suggestions
HandleInputNoHide(el, id) ==
    LET query == Trim(el.searchInput) IN
    IF Len(query) < 2
    THEN [elements |-> el, request |-> Null, query |-> query]
    ELSE [elements |-> el, request |-> Some([id |-> id, query |-> query]),
          query |-> query]

\* handleInput up to its await: [elements, request (Null when none)]
HandleInput(el, id) ==
    LET query == Trim(el.searchInput) IN
    IF Len(query) < 2
    THEN [elements |-> HideSuggestions(el), request |-> Null, query |-> query]
    ELSE [elements |-> el, request |-> Some([id |-> id, query |-> query]),
          query |-> query]

\* timer t is due: the debounced handleInput runs with t's arguments
TimerFire(t) ==
    /\ t.elapsed >= Delay
    /\ timers' = timers \ {t}
    /\ LET h == HandleInput(elements, t.id) IN
       /\ elements' = h.elements
       /\ suggestReqs' = suggestReqs \cup {h.request[i] : i \in DOMAIN h.request}
       /\ burst' = [burst EXCEPT !.runs = @ + 1,
                                 !.reqs = @ + Len(h.request),
                                 !.args = t.args,
                                 !.len = Len(h.query)]
       /\ last' = Step("handleInput", t.args, h.query, NoResponse,
                       IF h.request = Null THEN "hidden" ELSE "requested")
    /\ UNCHANGED <<pc, state, localStorage, weatherReqs, timeout, nextReq,
                   nextEvent, quiet, lastSuccess,
                   lastRendered>>

\* faulty variant: a failed search is reported like a failed weather fetch
HandleInputResumeShowsError(el, resp) ==
    IF resp.kind = "reject" \/ ~resp.ok \/ resp.body = Null
    THEN ShowErrorState(HideSuggestions(el), Some(FetchFailedMsg))
    ELSE ShowSuggestions(el, resp.body[1])

\* handleInput from the resumption of its await to its return
HandleInputResume(el, resp) ==
    IF resp.kind = "reject" \/ ~resp.ok \/ resp.body = Null
    THEN HideSuggestions(el)
    ELSE ShowSuggestions(el, resp.body[1])

\* the response of search request q arrives
SuggestResponse(q, resp) ==
    /\ suggestReqs' = suggestReqs \ {q}
    /\ elements' = HandleInputResume(elements, resp)
    /\ last' = Step("suggestDone", q.id, q.query, NoResponse,
                    IF elements'.suggestionsShow THEN "shown" ELSE "hidden")
    /\ UNCHANGED <<pc, state, localStorage, weatherReqs, timers, timeout,
                   nextReq, nextEvent, quiet, burst, lastSuccess,
                   lastRendered>>

\* click inside the suggestion container, which takes clicks while it is
\* shown: on item i, or (i = 0) on the container itself; the first and the
\* last item are tried
ClickTargets == {0, 1, Len(elements.suggestionsHtml)}

\* faulty variant: the search is not cleared after the fetch is issued
HandleSuggestionClickNoClear(i) ==
    /\ pc = "ready"
    /\ elements.suggestionsShow
    /\ IF i = 0
       THEN /\ UNCHANGED <<weatherReqs, nextReq, elements>>
            /\ last' = Step("suggestionClick", 0, "", NoResponse, "")
       ELSE /\ i \in DOMAIN elements.suggestionsHtml
            /\ StartFetch(elements.suggestionsHtml[i], "handleSuggestionClick")
            /\ elements' = ShowLoadingState(elements)
            /\ last' = Step("suggestionClick", nextReq,
                            elements.suggestionsHtml[i], NoResponse, "")
    /\ UNCHANGED <<pc, state, localStorage, suggestReqs, timers, timeout,
                   nextEvent, quiet, burst, lastSuccess,
                   lastRendered>>

\* click inside the suggestion container: on its i-th item, or (i = 0) on
\* the container itself
HandleSuggestionClick(i) ==
    /\ pc = "ready"
    /\ elements.suggestionsShow
    /\ IF i = 0
       THEN /\ UNCHANGED <<weatherReqs, nextReq, elements>>
            /\ last' = Step("suggestionClick", 0, "", NoResponse, "")
       ELSE /\ i \in DOMAIN elements.suggestionsHtml
            /\ StartFetch(elements.suggestionsHtml[i], "handleSuggestionClick")
            /\ elements' = ClearSearch(ShowLoadingState(elements))
            /\ last' = Step("suggestionClick", nextReq,
                            elements.suggestionsHtml[i], NoResponse, "")
    /\ UNCHANGED <<pc, state, localStorage, suggestReqs, timers, timeout,
                   nextEvent, quiet, burst, lastSuccess,
                   lastRendered>>

\* the page is unloaded and loaded again: the script runs anew, the pending
\* requests and timers of the old page are gone, the persisted store stays
Reload ==
    /\ pc = "ready"
    /\ pc' = "loading"
    /\ state' = FreshState(localStorage)
    /\ elements' = InitialElements({})
    /\ weatherReqs' = {}
    /\ suggestReqs' = {}
    /\ timers' = {}
    /\ timeout' = 0
    /\ quiet' = Delay
    /\ burst' = NoBurst
    /\ last' = Step("load", 0, "", NoResponse, "")
    /\ UNCHANGED <<localStorage, nextReq, nextEvent, lastSuccess,
                   lastRendered>>

-----------------------------------------------------------------------------
Next ==
    \/ InitApp
    \/ \E r \in weatherReqs, resp \in WeatherResponses, writeOk \in BOOLEAN :
           WeatherResponse(r, resp, writeOk)
    \/ \E unit \in Units : UnitClick(unit)
    \/ HandleSearch
    \/ \E text \in Texts : InputEvent(text)
    \/ Tick
    \/ \E t \in timers : TimerFire(t)
    \/ \E q \in suggestReqs, resp \in SuggestResponses : SuggestResponse(q, resp)
    \/ \E i \in ClickTargets : HandleSuggestionClick(i)
    \/ Reload

Spec == Init /\ [][Next]_vars

\* the transport answers every request, with a response or with a failure
TransportAnswers ==
    \A i \in 1..MaxEvents :
        WF_vars(\E r \in weatherReqs, resp \in WeatherResponses,
                   writeOk \in BOOLEAN :
                       r.id = i /\ WeatherResponse(r, resp, writeOk))

FairSpec == Spec /\ TransportAnswers

-----------------------------------------------------------------------------
(* Properties *)

\* the temperature element shows a number, no placeholder
ShowsNumber(el) == el.temperature \notin {"", "...", "--"}

\* el shows every field of snapshot data, the temperature in unit
IsFullRender(el, data, unit) == el = UpdateUI(el, data, unit)

ErrorTexts == {FetchFailedMsg, SyntaxMsg, QuotaMsg, "Location not found",
               "Weather data unavailable", "Data unavailable"}

\* el is in the error render state
IsErrorRender(el) == el.temperature = "--" /\ el.conditionText \in ErrorTexts

\* el is in the loading render state
IsLoadingRender(el) == el.temperature = "..." /\ el.conditionText = "Loading..."

\* the step taken last completed a weather fetch
FetchDone == last.op = "fetchDone"

\* C1: whenever the temperature element shows a number, it is the rounded
\* reading of state.weatherData for state.currentUnit, and the active unit
\* button is the one of state.currentUnit
C1_TemperatureOfCurrentUnit ==
    ShowsNumber(elements) =>
        /\ state.weatherData # Null
        /\ elements.temperature =
               ToString(Round(TempOf(state.weatherData[1], state.currentUnit)))
        /\ elements.unitActive = {state.currentUnit}

\* a fetch has completed with a full render after the unit was switched
C1_Witness ==
    /\ FetchDone
    /\ last.outcome = "rendered"
    /\ state.currentUnit = "f"
    /\ elements.temperature \in {"55", "28"}

\* C2: a unit click issues no request; when the unit differs and a snapshot
\* exists it changes state.currentUnit, the temperature text and the active
\* button and nothing else; otherwise it changes nothing
C2_UnitClickFrame ==
    [][last'.op = "switchUnit" =>
          LET unit == last'.arg IN
          /\ UNCHANGED <<pc, localStorage, weatherReqs, suggestReqs, timers,
                         timeout, nextReq, nextEvent>>
          /\ IF unit # state.currentUnit /\ state.weatherData # Null
             THEN /\ state' = [state EXCEPT !.currentUnit = unit]
                  /\ elements' =
                         [elements EXCEPT
                             !.temperature = ToString(Round(
                                 TempOf(state.weatherData[1], unit))),
                             !.unitActive = {unit}]
             ELSE UNCHANGED <<state, elements>>]_vars

\* the unit was switched while a fetch was loading: only the temperature moved
C2_Witness ==
    /\ last.op = "switchUnit"
    /\ state.currentUnit = "f"
    /\ elements.temperature \in {"55", "28"}
    /\ elements.conditionText = "Loading..."
    /\ weatherReqs # {}

\* C3: once a fetch got a snapshot and the storage write succeeded,
\* state.lastLocation and the persisted lastLocation both are its query
C3_LastLocationPersisted ==
    (lastSuccess # Null /\ lastSuccess[1].wrote) =>
        /\ state.lastLocation = lastSuccess[1].location
        /\ GetItem(localStorage, "lastLocation") = Some(lastSuccess[1].location)

\* a search for "aa" has been fetched and stored over the initial location
C3_Witness ==
    /\ lastSuccess = Some([location |-> "aa", wrote |-> TRUE])
    /\ state.lastLocation = "aa"
    /\ GetItem(localStorage, "lastLocation") = Some("aa")

\* the fetch completed last got a snapshot and its storage write threw
WriteThrew ==
    /\ FetchDone
    /\ ThrownBeforeAssign(last.resp) = Null
    /\ lastSuccess = Some([location |-> last.arg, wrote |-> FALSE])

\* C4: a storage write that throws is swallowed: state.lastLocation is the
\* fetched query and the display stays the full render of the new snapshot
C4_WriteFailureSwallowed ==
    WriteThrew =>
        /\ state.lastLocation = last.arg
        /\ last.outcome = "rendered"
        /\ IsFullRender(elements, last.resp.body[1], state.currentUnit)

\* the fetch completed last succeeded: it got a snapshot and stored its query
Succeeded ==
    /\ ThrownBeforeAssign(last.resp) = Null
    /\ lastSuccess = Some([location |-> last.arg, wrote |-> TRUE])

\* C5: whatever the order of the requests, the display after a completion is
\* the outcome of the fetch that completed: the full render of its snapshot
\* if it succeeded, the error render if it failed
C5_LastCompletionWins ==
    FetchDone =>
        IF Succeeded
        THEN /\ state.weatherData = last.resp.body
             /\ IsFullRender(elements, last.resp.body[1], state.currentUnit)
        ELSE IsErrorRender(elements)

\* the request issued first completed after a later one, and is on display
C5_Witness ==
    /\ FetchDone
    /\ last.id = 1
    /\ nextReq > 2
    /\ weatherReqs = {}
    /\ Succeeded
    /\ IsFullRender(elements, last.resp.body[1], state.currentUnit)

\* C6 as stated: after a burst the wrapped action has run once, with the
\* arguments of the last trigger, and has issued one suggestion request
C6_OneRequestPerBurst ==
    (burst.last > 0 /\ timers = {}) =>
        /\ burst.runs = 1
        /\ burst.args = burst.last
        /\ burst.reqs = 1

\* C6 amended: the wrapped action does not run before the quiet period
\* since the last trigger has elapsed, and once no execution is pending it
\* has run once, with the arguments of the last trigger; that run issued one
\* suggestion request when the trimmed text had 2 characters or more, and
\* none when it was shorter
C6_OneRunPerBurst ==
    burst.last > 0 =>
        /\ quiet < Delay => burst.runs = 0
        /\ timers # {} => burst.runs = 0
        /\ timers = {} =>
               /\ burst.runs = 1
               /\ burst.args = burst.last
               /\ burst.reqs = IF burst.len >= 2 THEN 1 ELSE 0

\* a burst of two triggers has run once and issued one request
C6_Witness ==
    /\ burst.first < burst.last
    /\ timers = {}
    /\ burst.runs = 1
    /\ burst.args = burst.last
    /\ burst.reqs = 1

\* C7: a submit with a non-empty trimmed text issues one weather fetch for
\* that text, and the completion of that fetch, rendered or caught, leaves
\* the search field empty and the suggestions hidden; a submit with an empty
\* trimmed text issues no fetch
C7_SearchSubmit ==
    [][/\ last'.op = "handleSearch" =>
              LET location == Trim(elements.searchInput) IN
              IF location # ""
              THEN /\ weatherReqs' = weatherReqs \cup
                          {[id |-> nextReq, location |-> location,
                            caller |-> "handleSearch"]}
                   /\ nextReq' = nextReq + 1
              ELSE UNCHANGED <<weatherReqs, nextReq>>
       /\ last'.op = "fetchDone" =>
              \A r \in weatherReqs :
                  (r.id = last'.id /\ r.caller = "handleSearch") =>
                      /\ elements'.searchInput = ""
                      /\ ~elements'.suggestionsShow]_vars

\* the fetch of a submitted "aa" has failed and the field is empty
C7_Witness ==
    /\ FetchDone
    /\ last.arg = "aa"
    /\ last.outcome = "caught"
    /\ elements.searchInput = ""
    /\ ~elements.suggestionsShow

\* C8: when the debounced handler runs on a trimmed text shorter than 2, it
\* issues no suggestion request and the suggestion list is hidden
C8_ShortQueryHides ==
    [][(last'.op = "handleInput" /\ Len(Trim(elements.searchInput)) < 2) =>
          /\ ~elements'.suggestionsShow
          /\ suggestReqs' = suggestReqs]_vars

\* the handler ran on a short text after suggestions had been listed
C8_Witness ==
    /\ last.op = "handleInput"
    /\ Len(last.arg) < 2
    /\ elements.suggestionsHtml # <<>>
    /\ ~elements.suggestionsShow
    /\ suggestReqs = {}

\* the message of an error payload, "" when it carries none
MessageOf(payload) ==
    IF payload.error = Null \/ payload.error[1].message = Null THEN ""
    ELSE payload.error[1].message[1]

\* C9: the completion of a fetch that got a non-success response shows "--"
\* and, as condition text, the message of the error payload, or the fallback
\* "Weather data unavailable" when the payload carries none
C9_ApiErrorShown ==
    (FetchDone /\ last.resp.kind = "response" /\ ~last.resp.ok
       /\ last.resp.body # Null) =>
        /\ elements.temperature = "--"
        /\ elements.conditionText =
               IF MessageOf(last.resp.body[1]) # ""
               THEN MessageOf(last.resp.body[1])
               ELSE "Weather data unavailable"

\* a fetch was answered "Location not found" and the page shows it
C9_Witness ==
    /\ FetchDone
    /\ ~last.resp.ok
    /\ last.resp.body # Null
    /\ elements.temperature = "--"
    /\ elements.conditionText = "Location not found"

\* the step taken last started weather fetch last.id
FetchStarted ==
    /\ last.op \in {"initApp", "handleSearch", "suggestionClick"}
    /\ last.id > 0

InFlight(i) == \E r \in weatherReqs : r.id = i

Completed(i) == i < nextReq /\ ~InFlight(i)

\* C10: a fetch that starts shows the loading state; when the transport
\* answers, it completes, and its completion is either the full render of
\* the new snapshot with the location persisted, or the error render; every
\* failure is caught and none leaves the page in the loading state
C10_FetchEnds ==
    /\ [](FetchStarted => (InFlight(last.id) /\ IsLoadingRender(elements)))
    /\ \A i \in 1..MaxEvents : InFlight(i) ~> Completed(i)
    /\ [](FetchDone =>
            /\ last.outcome \in {"rendered", "caught"}
            /\ ~IsLoadingRender(elements)
            /\ ThrownBeforeAssign(last.resp) # Null => last.outcome = "caught"
            /\ IF last.outcome = "rendered"
               THEN /\ IsFullRender(elements, last.resp.body[1],
                                    state.currentUnit)
                    /\ state.lastLocation = last.arg
                    /\ GetItem(localStorage, "lastLocation") = Some(last.arg)
               ELSE IsErrorRender(elements))

\* a fetch whose body could not be parsed has ended in the error render
C10_Witness ==
    /\ FetchDone
    /\ last.resp.ok
    /\ last.resp.body = Null
    /\ last.outcome = "caught"
    /\ IsErrorRender(elements)
    /\ weatherReqs = {}

\* C11: the query of the last fetch that completed without an error is the
\* persisted location, and the initial fetch of every startup asks for it;
\* a startup asks for whatever location it finds persisted, and a startup
\* that finds nothing persisted asks for the default "London"
C11_StartupUsesPersisted ==
    /\ lastRendered # Null =>
           GetItem(localStorage, "lastLocation") = lastRendered
    /\ (last.op = "initApp" /\ lastRendered # Null) =>
           last.arg = lastRendered[1]
    /\ (last.op = "initApp" /\ localStorage # <<>>) =>
           last.arg = localStorage["lastLocation"]
    /\ (last.op = "initApp" /\ localStorage = <<>>) => last.arg = "London"

\* a fetch for "Paris" completed without error, the page was loaded again
\* and its initial fetch asked for "Paris", not for the default
C11_Witness ==
    /\ last.op = "initApp"
    /\ last.arg = "Paris"
    /\ lastRendered = Some("Paris")
    /\ \E r \in weatherReqs : r.location = "Paris" /\ r.caller = "initApp"

\* C12: a weather fetch that ends in failure changes neither
\* state.weatherData, state.lastLocation nor the persisted value, by its
\* start or by its completion; the store is written once, with the query, by
\* each fetch that completes successfully, and by no other step
C12_FailedFetchFrame ==
    [][/\ (last'.op = "fetchDone" /\ last'.outcome = "caught") =>
              UNCHANGED <<state, localStorage>>
       /\ last'.op \in {"initApp", "handleSearch", "suggestionClick"} =>
              UNCHANGED <<state, localStorage>>
       /\ (last'.op = "fetchDone" /\ last'.outcome = "rendered") =>
              localStorage' = SetItem(localStorage, "lastLocation", last'.arg)
       /\ localStorage' # localStorage =>
              (last'.op = "fetchDone" /\ last'.outcome = "rendered")]_vars

\* the texts that stand in for a reading while loading or after an error
TemperaturePlaceholders == {"...", "--"}
ConditionPlaceholders == {"Loading..."} \cup ErrorTexts

\* every weather field of el comes from snapshot data: the temperature and
\* the condition text are its reading or a placeholder, the other fields are
\* its values
FromSnapshot(el, data, unit) ==
    LET full == UpdateUI(el, data, unit) IN
    /\ [el EXCEPT !.temperature = full.temperature,
                  !.conditionText = full.conditionText] = full
    /\ el.temperature \in {full.temperature} \cup TemperaturePlaceholders
    /\ el.conditionText \in {full.conditionText} \cup ConditionPlaceholders

\* no weather field of el has been written, but for the placeholders
NothingRendered(el) ==
    LET none == InitialElements({}) IN
    /\ [el EXCEPT !.temperature = "", !.conditionText = "",
                  !.searchInput = "", !.suggestionsHtml = <<>>,
                  !.suggestionsShow = FALSE] = none
    /\ el.temperature \in {""} \cup TemperaturePlaceholders
    /\ el.conditionText \in {""} \cup ConditionPlaceholders

\* C13: state.weatherData is unset or the whole payload of one successful
\* response, and every weather field on the page comes from it: nothing of
\* any other snapshot is displayed.  It changes only when a fetch completes
\* with a successful response, and then to the payload of that response
C13_SingleSnapshot ==
    /\ [](/\ state.weatherData = Null => NothingRendered(elements)
          /\ state.weatherData # Null =>
                /\ state.weatherData[1] \in Snapshots
                /\ FromSnapshot(elements, state.weatherData[1],
                                state.currentUnit))
    /\ [][state.weatherData' # state.weatherData =>
             \/ /\ last'.op = "fetchDone"
                /\ last'.resp.kind = "response"
                /\ last'.resp.ok
                /\ state.weatherData' = last'.resp.body
             \/ pc' = "loading"]_vars

\* the fetch for "aa", issued after the initial one, completed with the Oslo
\* snapshot, which is the state's snapshot and the one on the page
C13_Witness ==
    /\ FetchDone
    /\ last.id = 2
    /\ state.weatherData = Some(SnapOslo)
    /\ elements.location = "Oslo, Norway"
    /\ elements.humidity # ""
    /\ lastRendered = Some("aa")

\* C14: a click on a suggestion item with text T issues one weather fetch for
\* T, puts the page in the loading state as every fetch does, empties the
\* search input and hides the list; a click in the container outside the
\* items issues no fetch and changes nothing
C14_SuggestionClick ==
    [][last'.op = "suggestionClick" =>
          /\ UNCHANGED <<state, localStorage, suggestReqs, timers>>
          /\ IF last'.id = 0
             THEN UNCHANGED <<elements, weatherReqs, nextReq>>
             ELSE /\ \E i \in DOMAIN elements.suggestionsHtml :
                        elements.suggestionsHtml[i] = last'.arg
                  /\ \E r \in weatherReqs' :
                        /\ r.location = last'.arg
                        /\ r.id = last'.id
                        /\ weatherReqs' = weatherReqs \cup {r}
                        /\ r \notin weatherReqs
                  /\ elements' = [elements EXCEPT
                                     !.temperature = "...",
                                     !.conditionText = "Loading...",
                                     !.searchInput = "",
                                     !.suggestionsShow = FALSE]]_vars

\* the item "Rome, Italy" was clicked: its fetch is in flight, the input is
\* empty and the list is hidden
C14_Witness ==
    /\ last.op = "suggestionClick"
    /\ last.arg = "Rome, Italy"
    /\ \E r \in weatherReqs : r.id = last.id /\ r.location = "Rome, Italy"
    /\ elements.searchInput = ""
    /\ ~elements.suggestionsShow

\* the entries the list is to show for the search results S
ExpectedItems(S) ==
    IF S = <<>> THEN <<"No results found">>
    ELSE [i \in 1..Min(MaxShown, Len(S)) |->
              S[i].name \o ", " \o S[i].country]

\* C15: when the request for a query of at least 2 characters is answered
\* with the list S, the suggestion list is shown with the first
\* min(5, |S|) entries of S, in order, as "<name>, <country>", or with the
\* one entry "No results found" when S is empty
C15_SuggestionsShown ==
    [][\A q \in suggestReqs : \A S \in SearchResults :
          SuggestResponse(q, [kind |-> "response", ok |-> TRUE,
                              body |-> Some(S)]) =>
              /\ Len(q.query) >= 2
              /\ elements'.suggestionsShow
              /\ elements'.suggestionsHtml = ExpectedItems(S)]_vars

\* six places were returned: the first five are shown, the sixth is not
C15_Witness ==
    /\ last.op = "suggestDone"
    /\ elements.suggestionsShow
    /\ elements.suggestionsHtml =
           <<"Tokyo, Japan", "Paris, France", "Oslo, Norway", "Lima, Peru",
             "Rome, Italy">>

\* the answers that make a search request fail
FailedSuggestResponses ==
    {resp \in SuggestResponses :
        resp.kind = "reject" \/ ~resp.ok \/ resp.body = Null}

\* C16: a search request that fails hides the suggestion list and does
\* nothing else: the weather display, the search input, the state and the
\* persisted store stay as they are
C16_SuggestFailureSwallowed ==
    [][\A q \in suggestReqs : \A resp \in FailedSuggestResponses :
          SuggestResponse(q, resp) =>
              /\ elements' = [elements EXCEPT !.suggestionsShow = FALSE]
              /\ ~IsErrorRender(elements) => ~IsErrorRender(elements')
              /\ UNCHANGED <<state, localStorage, weatherReqs, timers>>]_vars

\* a search request failed while the list of an earlier one was shown next
\* to a rendered snapshot: the list is hidden, the reading is still there
C16_Witness ==
    /\ last.op = "suggestDone"
    /\ last.outcome = "hidden"
    /\ elements.suggestionsHtml # <<>>
    /\ ShowsNumber(elements)
    /\ state.weatherData # Null

\* C17: at most one execution of the debounced action is pending, and it is
\* the one the latest trigger scheduled; an execution that runs is the one
\* of the latest trigger, so one that a later trigger cancelled never runs
C17_OnePendingExecution ==
    /\ [](/\ Cardinality(timers) <= 1
          /\ \A t \in timers : t.id = timeout /\ t.args = nextEvent - 1)
    /\ [][last'.op = "handleInput" =>
             /\ last'.id = nextEvent - 1
             /\ \E t \in timers : t.args = last'.id /\ timers' = timers \ {t}
             /\ timers' = {}]_vars

\* a second trigger has cancelled the execution the first one scheduled:
\* the only pending execution is the second trigger's
C17_Witness ==
    /\ burst.first < burst.last
    /\ burst.runs = 0
    /\ Cardinality(timers) = 1
    /\ \A t \in timers : t.args = burst.last

\* the search input holds no query the input handler would look up
ShortInput(el) == Len(Trim(el.searchInput)) < 2

\* C18: while the search input is empty or shorter than 2 characters, no
\* response of a suggestion request shows the list: a list that was hidden
\* is shown again only by the answer to a query the input still holds
C18_StaleResponseKeepsHidden ==
    [][(last'.op = "suggestDone" /\ ShortInput(elements)) =>
          ~elements'.suggestionsShow]_vars

\* C19: a temperature placeholder, shown while a fetch is in flight or after
\* a failed fetch, gives way to a number only when a fetch completes
\* successfully; no other step, a unit click included, puts a number there
C19_PlaceholderKept ==
    [][(elements.temperature \in TemperaturePlaceholders
        /\ ShowsNumber(elements')) =>
          (last'.op = "fetchDone" /\ last'.outcome = "rendered")]_vars

\* C20: every weather fetch issued from the suggestion list asks for the
\* text of a place the search endpoint returned; the entry
\* "No results found" starts no fetch
C20_FetchOnlyReturnedPlaces ==
    \A r \in weatherReqs :
        r.caller = "handleSuggestionClick" =>
            \E S \in SearchResults : \E i \in DOMAIN S :
                r.location = S[i].name \o ", " \o S[i].country

=============================================================================
